---- MODULE Spec2Model ----
(***************************************************************************)
(* The error type of rash (src/error.rs): the RashError enum with its      *)
(* derived equality and Display texts, and the routine                     *)
(* RashError::format_kernel_error_message, which reads errno and strerror  *)
(* through a LibCWrapper and renders the KernelError message.              *)
(*                                                                         *)
(* A Rust String is modelled as what it is: a sequence of UTF-8 bytes      *)
(* (naturals 0..255).  Literals are written character by character and     *)
(* turned into bytes by Lit.                                               *)
(***************************************************************************)
EXTENDS Integers, Sequences, FiniteSets, TLC

(* ------------------------------------------------------------------ *)
(* Bytes and literals                                                  *)
(* ------------------------------------------------------------------ *)

\* The printable ASCII characters, in code order starting at 0x20 (the grave
\* accent, 0x60, is entered by name).
Printable ==
    << " ", "!", "\"", "#", "$", "%", "&", "'", "(", ")", "*", "+", ",", "-", ".", "/",
       "0", "1", "2", "3", "4", "5", "6", "7", "8", "9", ":", ";", "<", "=", ">", "?",
       "@", "A", "B", "C", "D", "E", "F", "G", "H", "I", "J", "K", "L", "M", "N", "O",
       "P", "Q", "R", "S", "T", "U", "V", "W", "X", "Y", "Z", "[", "\\", "]", "^", "_",
       "GRAVE", "a", "b", "c", "d", "e", "f", "g", "h", "i", "j", "k", "l", "m", "n", "o",
       "p", "q", "r", "s", "t", "u", "v", "w", "x", "y", "z", "{", "|", "}", "~" >>

\* The byte of a printable ASCII character.
Ascii(c) == 31 + (CHOOSE i \in 1..Len(Printable) : Printable[i] = c)

\* The bytes of a string literal given character by character.
Lit(cs) == [i \in 1..Len(cs) |-> Ascii(cs[i])]

\* Concatenation of a sequence of byte strings (the pieces format! writes).
RECURSIVE Concat(_)
Concat(parts) ==
    IF parts = << >> THEN << >> ELSE Head(parts) \o Concat(Tail(parts))

\* Whether byte string p is a prefix of byte string s.
IsPrefix(p, s) == Len(p) <= Len(s) /\ SubSeq(s, 1, Len(p)) = p

\* s without its first n bytes.
Drop(s, n) == SubSeq(s, n + 1, Len(s))

(* ------------------------------------------------------------------ *)
(* Conversions used by format_kernel_error_message                     *)
(* ------------------------------------------------------------------ *)

\* The decimal digits of a natural number, most significant first.
RECURSIVE Digits(_)
Digits(n) ==
    IF n < 10 THEN << 48 + n >> ELSE Digits(n \div 10) \o << 48 + (n % 10) >>

\* errno.to_string() of a c_int: a minus sign for negatives, then the digits
\* (for every c_int but the least one, whose negation is no c_int).
i32_to_string(n) == IF n < 0 THEN << 45 >> \o Digits(0 - n) ELSE Digits(n)

\* CStr::from_ptr(ptr): the bytes of the buffer before its first NUL.
RECURSIVE CStr_from_ptr(_)
CStr_from_ptr(buf) ==
    IF buf = << >> \/ Head(buf) = 0 THEN << >>
    ELSE << Head(buf) >> \o CStr_from_ptr(Tail(buf))

\* core::str: the length of the UTF-8 sequence a first byte announces (0: none).
utf8_char_width(b) ==
    IF b < 128 THEN 1
    ELSE IF b \in 194..223 THEN 2
    ELSE IF b \in 224..239 THEN 3
    ELSE IF b \in 240..244 THEN 4
    ELSE 0

\* A continuation byte, 0x80..0xBF.
IsContinuation(b) == b \in 128..191

\* The second byte allowed after the first byte of a three-byte sequence.
SecondOfThree(first, b) ==
    \/ first = 224 /\ b \in 160..191
    \/ first \in 225..236 /\ b \in 128..191
    \/ first = 237 /\ b \in 128..159
    \/ first \in 238..239 /\ b \in 128..191

\* The second byte allowed after the first byte of a four-byte sequence.
SecondOfFour(first, b) ==
    \/ first = 240 /\ b \in 144..191
    \/ first \in 241..243 /\ b \in 128..191
    \/ first = 244 /\ b \in 128..143

\* Utf8Error { valid_up_to, error_len }; error_len 0 stands for None.
Utf8Error(upto, len) == [ok |-> FALSE, valid_up_to |-> upto, error_len |-> len]

\* run_utf8_validation from byte offset index (0-based) of v.
RECURSIVE run_utf8_validation(_, _)
run_utf8_validation(v, index) ==
    IF index >= Len(v) THEN [ok |-> TRUE, valid_up_to |-> Len(v), error_len |-> 0]
    ELSE
      LET first    == v[index + 1]
          w        == utf8_char_width(first)
          has(k)   == index + k < Len(v)
          at(k)    == v[index + k + 1]
      IN  IF first < 128 THEN run_utf8_validation(v, index + 1)
          ELSE IF w = 2 THEN
                 IF ~has(1) THEN Utf8Error(index, 0)
                 ELSE IF ~IsContinuation(at(1)) THEN Utf8Error(index, 1)
                 ELSE run_utf8_validation(v, index + 2)
          ELSE IF w = 3 THEN
                 IF ~has(1) THEN Utf8Error(index, 0)
                 ELSE IF ~SecondOfThree(first, at(1)) THEN Utf8Error(index, 1)
                 ELSE IF ~has(2) THEN Utf8Error(index, 0)
                 ELSE IF ~IsContinuation(at(2)) THEN Utf8Error(index, 2)
                 ELSE run_utf8_validation(v, index + 3)
          ELSE IF w = 4 THEN
                 IF ~has(1) THEN Utf8Error(index, 0)
                 ELSE IF ~SecondOfFour(first, at(1)) THEN Utf8Error(index, 1)
                 ELSE IF ~has(2) THEN Utf8Error(index, 0)
                 ELSE IF ~IsContinuation(at(2)) THEN Utf8Error(index, 2)
                 ELSE IF ~has(3) THEN Utf8Error(index, 0)
                 ELSE IF ~IsContinuation(at(3)) THEN Utf8Error(index, 3)
                 ELSE run_utf8_validation(v, index + 4)
          ELSE Utf8Error(index, 1)

\* CStr::to_str: Ok when the bytes are valid UTF-8, else the Utf8Error.
to_str(bytes) == run_utf8_validation(bytes, 0)

\* The literal pieces of the Display texts of Utf8Error.
Utf8ErrorPieces ==
    << Lit(<<"i","n","v","a","l","i","d"," ","u","t","f","-","8"," ",
             "s","e","q","u","e","n","c","e"," ","o","f"," ">>),
       Lit(<<" ","b","y","t","e","s"," ","f","r","o","m"," ","i","n","d","e","x"," ">>),
       Lit(<<"i","n","c","o","m","p","l","e","t","e"," ","u","t","f","-","8"," ",
             "b","y","t","e"," ","s","e","q","u","e","n","c","e"," ",
             "f","r","o","m"," ","i","n","d","e","x"," ">>) >>

\* e.to_string() of a Utf8Error (its Display text).
Utf8Error_to_string(e) ==
    IF e.error_len # 0
    THEN Concat(<< Utf8ErrorPieces[1], Digits(e.error_len),
                   Utf8ErrorPieces[2], Digits(e.valid_up_to) >>)
    ELSE Utf8ErrorPieces[3] \o Digits(e.valid_up_to)

\* A decode that aborts on invalid text instead of falling back (unwrap).
DecodeOrAbort(bytes) ==
    LET r == to_str(bytes)
    IN  IF r.ok THEN [aborted |-> FALSE, text |-> bytes]
        ELSE [aborted |-> TRUE, text |-> << >>]

\* match CStr::from_ptr(ptr).to_str() { Ok(s) => s.to_string(), Err(e) => e.to_string() }
DecodeOrFallback(bytes) ==
    LET r == to_str(bytes)
    IN  IF r.ok THEN [aborted |-> FALSE, text |-> bytes]
        ELSE [aborted |-> FALSE, text |-> Utf8Error_to_string(r)]

\* The literal pieces of the format string
\* "Received errno {}, Description: {}, strerror output: {}.".
FormatPieces ==
    << Lit(<<"R","e","c","e","i","v","e","d"," ","e","r","r","n","o"," ">>),
       Lit(<<","," ","D","e","s","c","r","i","p","t","i","o","n",":"," ">>),
       Lit(<<","," ","s","t","r","e","r","r","o","r"," ","o","u","t","p","u","t",":"," ">>),
       Lit(<<".">>) >>

\* format! with the description put where the strerror text belongs.
FormatSwapped(errno_arg, description_arg, strerror_arg) ==
    Concat(<< FormatPieces[1], i32_to_string(errno_arg),
              FormatPieces[2], strerror_arg,
              FormatPieces[3], description_arg,
              FormatPieces[4] >>)

\* format!("Received errno {}, Description: {}, strerror output: {}.",
\*         errno.to_string(), description.as_ref(), strerror)
Format(errno_arg, description_arg, strerror_arg) ==
    Concat(<< FormatPieces[1], i32_to_string(errno_arg),
              FormatPieces[2], description_arg,
              FormatPieces[3], strerror_arg,
              FormatPieces[4] >>)

(* ------------------------------------------------------------------ *)
(* The RashError enum: variants, derived PartialEq, Display            *)
(* ------------------------------------------------------------------ *)

\* The variants of RashError, in declaration order.
Variants ==
    << "NullByteInCommand", "KernelError", "FailedToReadStdout", "FailedToReadStderr" >>

\* A RashError value: its variant and the one field, message.
RashError(variant, message) == [variant |-> variant, message |-> message]

\* The discriminant of a value: the index of its variant in the declaration.
discriminant(e) == CHOOSE i \in 1..Len(Variants) : Variants[i] = e.variant

\* String == String: same length, same bytes.
String_eq(s, t) == Len(s) = Len(t) /\ \A i \in 1..Len(s) : s[i] = t[i]

\* An equality that looks at the variant alone.
eq_variant_only(a, b) == discriminant(a) = discriminant(b)

\* An equality that looks at the message alone.
eq_message_only(a, b) == String_eq(a.message, b.message)

\* #[derive(PartialEq)]: equal discriminants, then equal fields.
eq(a, b) == discriminant(a) = discriminant(b) /\ String_eq(a.message, b.message)

\* The lowercase hexadecimal digits of a natural number.
RECURSIVE HexDigits(_)
HexDigits(n) ==
    LET d(k) == IF k < 10 THEN 48 + k ELSE 87 + k
    IN  IF n < 16 THEN << d(n) >> ELSE HexDigits(n \div 16) \o << d(n % 16) >>

\* char::escape_debug of an ASCII character inside a str: named escapes for
\* NUL, tab, line feed, carriage return, the double quote and the backslash;
\* \u{..} for the other control characters; the character itself otherwise.
escape_debug(c) ==
    IF c = 0 THEN << 92, 48 >>
    ELSE IF c = 9 THEN << 92, 116 >>
    ELSE IF c = 10 THEN << 92, 110 >>
    ELSE IF c = 13 THEN << 92, 114 >>
    ELSE IF c = 34 THEN << 92, 34 >>
    ELSE IF c = 92 THEN << 92, 92 >>
    ELSE IF c < 32 \/ c = 127 THEN << 92, 117, 123 >> \o HexDigits(c) \o << 125 >>
    ELSE << c >>

\* The escaped characters of a str, one after the other.
RECURSIVE EscapeAll(_)
EscapeAll(s) ==
    IF s = << >> THEN << >> ELSE escape_debug(Head(s)) \o EscapeAll(Tail(s))

\* {:?} of a str: the escaped text between double quotes.
Debug_str(s) == << 34 >> \o EscapeAll(s) \o << 34 >>

\* The literal text of each variant's #[error(...)] attribute, before {:?}.
ErrorAttribute ==
    [ NullByteInCommand |->
        Lit(<<"N","u","l","l"," ","b","y","t","e"," ","i","n"," ",
              "c","o","m","m","a","n","d",":"," ">>),
      KernelError |-> << >>,
      FailedToReadStdout |->
        Lit(<<"C","o","u","l","d","n","'","t"," ","r","e","a","d"," ",
              "s","t","d","o","u","t",":"," ">>),
      FailedToReadStderr |->
        Lit(<<"C","o","u","l","d","n","'","t"," ","r","e","a","d"," ",
              "s","t","d","e","r","r",":"," ">>) ]

\* A Display in which the stderr variant carries the stdout text.
DisplaySamePrefix(e) ==
    IF e.variant = "FailedToReadStderr"
    THEN ErrorAttribute["FailedToReadStdout"] \o Debug_str(e.message)
    ELSE ErrorAttribute[e.variant] \o Debug_str(e.message)

\* thiserror's Display: the attribute's text with the message written by {:?}.
Display(e) == ErrorAttribute[e.variant] \o Debug_str(e.message)

(* ------------------------------------------------------------------ *)
(* Bounds and inputs                                                   *)
(* ------------------------------------------------------------------ *)

\* Number of threads that call format_kernel_error_message.
NumThreads == 2

\* Longest message of a RashError value that is built.
MaxMsgLen == 2

Threads == 1..NumThreads

\* The two implementations of LibCWrapper: the test double of error.rs and
\* the one over the operating system.
Wrappers == { "MockLibCWrapper", "System" }

\* The thread-local errno values a failing call may have left.
Errnos == { -1, 0, 2, 7, 13, 84 }

\* The errno values a thread of the unit test may hold when it calls the
\* formatter with the test double, which never looks at them.
TestErrnos == { 0, 13 }

\* The description strings callers pass.
Descriptions ==
    { Lit(<<"M","y"," ","d","e","s","c","r","i","p","t","i","o","n">>),
      Lit(<<"p","o","p","e","n"," ","{","}",","," ","f","a","i","l","e","d",".">>) }

\* The bytes messages of RashError values are built from: the letter n, the
\* double quote, the backslash, a line feed.
MsgBytes == { 110, 34, 92, 10 }

\* All byte strings over MsgBytes of length at most n.
RECURSIVE MsgsUpTo(_)
MsgsUpTo(n) ==
    IF n = 0 THEN { << >> }
    ELSE LET shorter == MsgsUpTo(n - 1)
         IN  shorter \cup { Append(m, b) : m \in { x \in shorter : Len(x) = n - 1 }, b \in MsgBytes }

Messages == MsgsUpTo(MaxMsgLen)

\* Every RashError value with a message of Messages.
RashErrors ==
    { RashError(Variants[i], m) : i \in 1..Len(Variants), m \in Messages }

(* ------------------------------------------------------------------ *)
(* The LibCWrapper implementations                                     *)
(* ------------------------------------------------------------------ *)

\* MockLibCWrapper::__errno_location: a fresh box holding 7.
Mock_errno_location == 7

\* The text every box made by MockLibCWrapper::strerror points to: "Hello\0".
Mock_strerror_text == Lit(<<"H","e","l","l","o">>) \o << 0 >>

\* The operating system's wrapper: the calling thread's own errno.
System_errno_location(kernel_errno_of_thread) == kernel_errno_of_thread

\* The descriptions the operating system has for the codes of Errnos, in the
\* encoding of the locale: UTF-8 texts, a truncated one, a Latin-1 one and a
\* malformed one.
SystemTexts ==
    [ e \in Errnos |->
        IF e = 0 THEN Lit(<<"S","u","c","c","e","s","s">>)
        ELSE IF e = 2 THEN Lit(<<"N","o">>) \o << 195 >>
        ELSE IF e = 7 THEN Lit(<<"A","r","g"," ","l","i","s","t"," ">>) \o << 195, 169 >>
        ELSE IF e = 13 THEN Lit(<<"r","e","f","u","s">>) \o << 233, 101 >>
        ELSE IF e = 84 THEN Lit(<<"b","a","d">>) \o << 240, 159, 40 >>
        ELSE Lit(<<"U","n","k","n","o","w","n"," ","e","r","r","o","r"," ">>)
               \o i32_to_string(e) ]

\* The operating system's wrapper: a pointer to the NUL-terminated
\* description of the code.
System_strerror(code) == SystemTexts[code] \o << 0 >>

(* ------------------------------------------------------------------ *)
(* State                                                               *)
(* ------------------------------------------------------------------ *)

VARIABLES
    wrapper,        \* the LibCWrapper implementation passed as `wrapper`
    kernel_errno,   \* per thread: the thread-local errno of the operating system
    HELLO,          \* static mut HELLO: 0 (null) or the box last stored, named by the thread that made it
    pc,             \* per thread: where it is in format_kernel_error_message
    description,    \* per thread: the `description` argument
    errno,          \* per thread: the local `errno`
    ptr,            \* per thread: the local `ptr`: the box reached and the buffer read
    strerror,       \* per thread: the local `strerror`
    result,         \* per thread: the String returned
    outcome,        \* per thread: "running", "returned" or "aborted"
    calls,          \* per thread: the wrapper operations invoked, in order
    lhs, rhs,       \* two RashError values
    stage,          \* "off", "built", "compared" or "shown"
    equal,          \* the result of lhs == rhs
    shown           \* << lhs.to_string(), rhs.to_string() >>

fmt_vars == << wrapper, kernel_errno, HELLO, pc, description, errno, ptr,
               strerror, result, outcome, calls >>

enum_vars == << lhs, rhs, stage, equal, shown >>

vars == << fmt_vars, enum_vars >>

\* A null pointer / no buffer read yet.
NullPtr == [box |-> 0, buf |-> << >>]

\* No thread has called the formatter.
FmtIdle ==
    /\ HELLO = 0
    /\ pc = [t \in Threads |-> "idle"]
    /\ description = [t \in Threads |-> << >>]
    /\ errno = [t \in Threads |-> 0]
    /\ ptr = [t \in Threads |-> NullPtr]
    /\ strerror = [t \in Threads |-> << >>]
    /\ result = [t \in Threads |-> << >>]
    /\ outcome = [t \in Threads |-> "running"]
    /\ calls = [t \in Threads |-> << >>]

\* No RashError comparison or rendering under way.
EnumOff ==
    /\ lhs = RashError("KernelError", << >>)
    /\ rhs = RashError("KernelError", << >>)
    /\ stage = "off"
    /\ equal = FALSE
    /\ shown = << << >>, << >> >>

(* ------------------------------------------------------------------ *)
(* format_kernel_error_message, statement by statement                 *)
(* ------------------------------------------------------------------ *)

\* A caller on thread t invokes format_kernel_error_message(wrapper, d).
Call(t, d) ==
    /\ pc[t] = "idle"
    /\ description' = [description EXCEPT ![t] = d]
    /\ pc' = [pc EXCEPT ![t] = "errno_location"]
    /\ UNCHANGED << wrapper, kernel_errno, HELLO, errno, ptr, strerror, result,
                    outcome, calls, enum_vars >>

\* The value *wrapper.__errno_location() yields on thread t.
ErrnoOf(t) ==
    IF wrapper = "MockLibCWrapper" THEN Mock_errno_location
    ELSE System_errno_location(kernel_errno[t])

\* errno read once for strerror and once more for the message.
errno_location_twice(t) ==
    /\ pc[t] = "errno_location"
    /\ errno' = [errno EXCEPT ![t] = ErrnoOf(t)]
    /\ calls' = [calls EXCEPT ![t] =
                   @ \o << [op |-> "__errno_location", value |-> ErrnoOf(t)],
                           [op |-> "__errno_location", value |-> ErrnoOf(t)] >>]
    /\ pc' = [pc EXCEPT ![t] = "strerror"]
    /\ UNCHANGED << wrapper, kernel_errno, HELLO, description, ptr, strerror,
                    result, outcome, enum_vars >>

\* errno read after another descriptor call of the wrapper.
errno_location_after_fileno(t) ==
    /\ pc[t] = "errno_location"
    /\ errno' = [errno EXCEPT ![t] = ErrnoOf(t)]
    /\ calls' = [calls EXCEPT ![t] =
                   @ \o << [op |-> "fileno", value |-> 0],
                           [op |-> "__errno_location", value |-> ErrnoOf(t)] >>]
    /\ pc' = [pc EXCEPT ![t] = "strerror"]
    /\ UNCHANGED << wrapper, kernel_errno, HELLO, description, ptr, strerror,
                    result, outcome, enum_vars >>

\* let errno = *wrapper.__errno_location();
errno_location(t) ==
    /\ pc[t] = "errno_location"
    /\ errno' = [errno EXCEPT ![t] = ErrnoOf(t)]
    /\ calls' = [calls EXCEPT ![t] =
                   Append(@, [op |-> "__errno_location", value |-> ErrnoOf(t)])]
    /\ pc' = [pc EXCEPT ![t] = "strerror"]
    /\ UNCHANGED << wrapper, kernel_errno, HELLO, description, ptr, strerror,
                    result, outcome, enum_vars >>

\* let ptr = wrapper.strerror(errno); with the operating system's wrapper:
\* a pointer to the description of the code, in a buffer of the thread.
System_strerror_call(t) ==
    /\ pc[t] = "strerror"
    /\ wrapper = "System"
    /\ ptr' = [ptr EXCEPT ![t] = [box |-> t, buf |-> System_strerror(errno[t])]]
    /\ calls' = [calls EXCEPT ![t] = Append(@, [op |-> "strerror", value |-> errno[t]])]
    /\ pc' = [pc EXCEPT ![t] = "decode"]
    /\ UNCHANGED << wrapper, kernel_errno, HELLO, description, errno, strerror,
                    result, outcome, enum_vars >>

\* MockLibCWrapper::strerror, first half: box "Hello\0" and store the box
\* in the static HELLO.
Mock_strerror_store(t) ==
    /\ pc[t] = "strerror"
    /\ wrapper = "MockLibCWrapper"
    /\ HELLO' = t
    /\ calls' = [calls EXCEPT ![t] = Append(@, [op |-> "strerror", value |-> errno[t]])]
    /\ pc' = [pc EXCEPT ![t] = "strerror_load"]
    /\ UNCHANGED << wrapper, kernel_errno, description, errno, ptr, strerror,
                    result, outcome, enum_vars >>

\* MockLibCWrapper::strerror, second half: load HELLO again and return the
\* pointer of the box found there.
Mock_strerror_load(t) ==
    /\ pc[t] = "strerror_load"
    /\ ptr' = [ptr EXCEPT ![t] = [box |-> HELLO, buf |-> Mock_strerror_text]]
    /\ pc' = [pc EXCEPT ![t] = "decode"]
    /\ UNCHANGED << wrapper, kernel_errno, HELLO, description, errno, strerror,
                    result, outcome, calls, enum_vars >>

\* let strerror = match CStr::from_ptr(ptr).to_str() { ... };
decode(t) ==
    /\ pc[t] = "decode"
    /\ LET r == DecodeOrFallback(CStr_from_ptr(ptr[t].buf))
       IN  IF r.aborted
           THEN /\ outcome' = [outcome EXCEPT ![t] = "aborted"]
                /\ pc' = [pc EXCEPT ![t] = "done"]
                /\ UNCHANGED strerror
           ELSE /\ strerror' = [strerror EXCEPT ![t] = r.text]
                /\ pc' = [pc EXCEPT ![t] = "format"]
                /\ UNCHANGED outcome
    /\ UNCHANGED << wrapper, kernel_errno, HELLO, description, errno, ptr,
                    result, calls, enum_vars >>

\* format!(...) and return.
format(t) ==
    /\ pc[t] = "format"
    /\ result' = [result EXCEPT ![t] = Format(errno[t], description[t], strerror[t])]
    /\ outcome' = [outcome EXCEPT ![t] = "returned"]
    /\ pc' = [pc EXCEPT ![t] = "done"]
    /\ UNCHANGED << wrapper, kernel_errno, HELLO, description, errno, ptr,
                    strerror, calls, enum_vars >>

\* Threads about to call the formatter, each with its own errno.
Init ==
    /\ wrapper \in Wrappers
    /\ kernel_errno \in [Threads -> IF wrapper = "System" THEN Errnos ELSE TestErrnos]
    /\ FmtIdle
    /\ EnumOff

Next ==
    \/ \E t \in Threads, d \in Descriptions : Call(t, d)
    \/ \E t \in Threads : errno_location(t)
    \/ \E t \in Threads : System_strerror_call(t)
    \/ \E t \in Threads : Mock_strerror_store(t)
    \/ \E t \in Threads : Mock_strerror_load(t)
    \/ \E t \in Threads : decode(t)
    \/ \E t \in Threads : format(t)

Spec == Init /\ [][Next]_vars

(* ------------------------------------------------------------------ *)
(* Comparing and rendering RashError values                            *)
(* ------------------------------------------------------------------ *)

\* lhs == rhs
Compare ==
    /\ stage = "built"
    /\ equal' = eq(lhs, rhs)
    /\ stage' = "compared"
    /\ UNCHANGED << lhs, rhs, shown, fmt_vars >>

\* lhs.to_string(), rhs.to_string()
Render ==
    /\ stage = "compared"
    /\ shown' = << Display(lhs), Display(rhs) >>
    /\ stage' = "shown"
    /\ UNCHANGED << lhs, rhs, equal, fmt_vars >>

\* Two RashError values have been constructed.
InitEnum ==
    /\ wrapper = "MockLibCWrapper"
    /\ kernel_errno = [t \in Threads |-> 0]
    /\ FmtIdle
    /\ lhs \in RashErrors
    /\ rhs \in RashErrors
    /\ stage = "built"
    /\ equal = FALSE
    /\ shown = << << >>, << >> >>

NextEnum == Compare \/ Render

SpecEnum == InitEnum /\ [][NextEnum]_vars

(* ------------------------------------------------------------------ *)
(* Properties                                                          *)
(* ------------------------------------------------------------------ *)

\* The reads of the error state thread t has made so far.
ErrnoReads(t) == SelectSeq(calls[t], LAMBDA c : c.op = "__errno_location")

\* The strerror calls thread t has made so far.
StrerrorCalls(t) == SelectSeq(calls[t], LAMBDA c : c.op = "strerror")

\* The decimal text of the sample error codes, written out.
DecimalTexts ==
    [ e \in Errnos |->
        IF e = -1 THEN Lit(<<"-","1">>)
        ELSE IF e = 0 THEN Lit(<<"0">>)
        ELSE IF e = 2 THEN Lit(<<"2">>)
        ELSE IF e = 7 THEN Lit(<<"7">>)
        ELSE IF e = 13 THEN Lit(<<"1","3">>)
        ELSE Lit(<<"8","4">>) ]

DecimalOf(e) == DecimalTexts[e]

Hello == Lit(<<"H","e","l","l","o">>)

\* The bytes the wrapper's strerror hands out for code e, up to the NUL.
WrapperText(e) ==
    IF wrapper = "MockLibCWrapper" THEN Hello
    ELSE CStr_from_ptr(System_strerror(e))

ReceivedErrno == Lit(<<"R","e","c","e","i","v","e","d"," ","e","r","r","n","o"," ">>)

CommaDescription == Lit(<<","," ","D","e","s","c","r","i","p","t","i","o","n",":"," ">>)

CommaStrerrorOutput ==
    Lit(<<","," ","s","t","r","e","r","r","o","r"," ","o","u","t","p","u","t",":"," ">>)

\* The fixed format around an errno text n, a description d and a text s.
Message(n, d, s) ==
    ReceivedErrno \o n \o CommaDescription \o d \o CommaStrerrorOutput \o s \o << 46 >>

MyDescription == Lit(<<"M","y"," ","d","e","s","c","r","i","p","t","i","o","n">>)

\* "Received errno 7, Description: My description, strerror output: Hello."
TestMessage ==
    Lit(<<"R","e","c","e","i","v","e","d"," ","e","r","r","n","o"," ","7",","," ",
          "D","e","s","c","r","i","p","t","i","o","n",":"," ",
          "M","y"," ","d","e","s","c","r","i","p","t","i","o","n",","," ",
          "s","t","r","e","r","r","o","r"," ","o","u","t","p","u","t",":"," ",
          "H","e","l","l","o",".">>)

\* C1: whenever the formatter has returned and the wrapper's strerror text for
\* the errno e it read is valid text s, the result is exactly
\* "Received errno {e}, Description: {d}, strerror output: {s}." with d the
\* caller's description, verbatim; with the test double (e = 7, s = "Hello")
\* and d = "My description" it is exactly the string of the unit test.
C1_FormatExact ==
    \A t \in Threads :
      (outcome[t] = "returned" /\ to_str(WrapperText(ErrnoOf(t))).ok) =>
         /\ result[t] = Message(DecimalOf(ErrnoOf(t)), description[t],
                                WrapperText(ErrnoOf(t)))
         /\ (wrapper = "MockLibCWrapper" /\ description[t] = MyDescription)
               => result[t] = TestMessage

\* The unit test's scenario has run and produced the unit test's string.
C1_Witness ==
    \E t \in Threads :
      /\ wrapper = "MockLibCWrapper"
      /\ outcome[t] = "returned"
      /\ description[t] = MyDescription
      /\ result[t] = TestMessage

\* C2: the formatter never aborts, and when the strerror text is not valid
\* UTF-8 the returned string has the fixed format with the decoding error's
\* Display text in the place of the strerror text.
C2_DecodeFailureFallsBack ==
    \A t \in Threads :
      /\ outcome[t] # "aborted"
      /\ (pc[t] = "done" /\ ~to_str(WrapperText(ErrnoOf(t))).ok) =>
            /\ outcome[t] = "returned"
            /\ result[t] = Message(DecimalOf(ErrnoOf(t)), description[t],
                                   Utf8Error_to_string(to_str(WrapperText(ErrnoOf(t)))))

Latin1Message ==
    Lit(<<"R","e","c","e","i","v","e","d"," ","e","r","r","n","o"," ","1","3",","," ",
          "D","e","s","c","r","i","p","t","i","o","n",":"," ",
          "M","y"," ","d","e","s","c","r","i","p","t","i","o","n",","," ",
          "s","t","r","e","r","r","o","r"," ","o","u","t","p","u","t",":"," ",
          "i","n","v","a","l","i","d"," ","u","t","f","-","8"," ",
          "s","e","q","u","e","n","c","e"," ","o","f"," ","1"," ",
          "b","y","t","e","s"," ","f","r","o","m"," ","i","n","d","e","x"," ","5",".">>)

\* A Latin-1 strerror text was met and the formatter returned the message
\* "Received errno 13, Description: My description, strerror output: invalid
\* utf-8 sequence of 1 bytes from index 5."
C2_Witness ==
    \E t \in Threads :
      /\ wrapper = "System"
      /\ outcome[t] = "returned"
      /\ ~to_str(CStr_from_ptr(ptr[t].buf)).ok
      /\ result[t] = Latin1Message

\* C3: an invocation reads the error state at most once at any moment and
\* exactly once by the time it has passed the read; the local errno, the
\* argument of strerror and the errno printed in the message are that read.
C3_SingleErrnoRead ==
    \A t \in Threads :
      /\ Len(ErrnoReads(t)) <= 1
      /\ pc[t] \notin { "idle", "errno_location" } =>
            /\ Len(ErrnoReads(t)) = 1
            /\ errno[t] = ErrnoReads(t)[1].value
            /\ \A i \in 1..Len(StrerrorCalls(t)) :
                  StrerrorCalls(t)[i].value = ErrnoReads(t)[1].value
      /\ outcome[t] = "returned" =>
            IsPrefix(ReceivedErrno \o DecimalOf(ErrnoReads(t)[1].value) \o << 44 >>,
                     result[t])

\* An invocation on the decode-failure path and one on the decode-success
\* path have both finished, each after one read.
C3_Witness ==
    \E t, u \in Threads :
      /\ pc[t] = "done" /\ pc[u] = "done"
      /\ ~to_str(CStr_from_ptr(ptr[t].buf)).ok
      /\ to_str(CStr_from_ptr(ptr[u].buf)).ok
      /\ Len(ErrnoReads(t)) = 1 /\ Len(ErrnoReads(u)) = 1

\* C5: a thread only ever reads the strerror text its own call produced: the
\* pointer it decodes comes from the box its own strerror call made, never from
\* a box another thread's call stored.
C5_OwnTextOnly ==
    \A t \in Threads : ptr[t].box \in { 0, t }

\* C8: the wrapper operations of an invocation are, in order,
\* __errno_location and then strerror with the value just read, and nothing
\* else (no popen, fileno, dup, dup2, pclose) before, between or after.
C8_CallSequence ==
    \A t \in Threads :
      LET full == << [op |-> "__errno_location", value |-> ErrnoOf(t)],
                     [op |-> "strerror", value |-> ErrnoOf(t)] >>
      IN  /\ IsPrefix(calls[t], full)
          /\ pc[t] \in { "decode", "format", "done" } => calls[t] = full

\* An invocation has finished with both operations logged.
C8_Witness ==
    \E t \in Threads :
      /\ pc[t] = "done"
      /\ Len(calls[t]) = 2
      /\ calls[t][1].op = "__errno_location"
      /\ calls[t][2].op = "strerror"

\* The text a debug-quoted body stands for; a lone double quote or an unknown
\* escape gives a text with the byte 256, which no message holds.
RECURSIVE Unescape(_)
Unescape(s) ==
    IF s = << >> THEN << >>
    ELSE IF Head(s) = 34 THEN << 256 >>
    ELSE IF Head(s) # 92 THEN << Head(s) >> \o Unescape(Tail(s))
    ELSE IF Len(s) < 2 THEN << 256 >>
    ELSE IF s[2] = 34 THEN << 34 >> \o Unescape(Drop(s, 2))
    ELSE IF s[2] = 92 THEN << 92 >> \o Unescape(Drop(s, 2))
    ELSE IF s[2] = 110 THEN << 10 >> \o Unescape(Drop(s, 2))
    ELSE IF s[2] = 116 THEN << 9 >> \o Unescape(Drop(s, 2))
    ELSE IF s[2] = 114 THEN << 13 >> \o Unescape(Drop(s, 2))
    ELSE IF s[2] = 48 THEN << 0 >> \o Unescape(Drop(s, 2))
    ELSE << 256 >>

\* Whether text q is message m in debug-quoted form.
IsDebugQuoted(q, m) ==
    /\ Len(q) >= 2
    /\ q[1] = 34
    /\ q[Len(q)] = 34
    /\ Unescape(SubSeq(q, 2, Len(q) - 1)) = m

\* The text in front of the quoted message, per variant.
Prefixes ==
    [ NullByteInCommand |->
        Lit(<<"N","u","l","l"," ","b","y","t","e"," ","i","n"," ",
              "c","o","m","m","a","n","d",":"," ">>),
      KernelError |-> << >>,
      FailedToReadStdout |->
        Lit(<<"C","o","u","l","d","n","'","t"," ","r","e","a","d"," ",
              "s","t","d","o","u","t",":"," ">>),
      FailedToReadStderr |->
        Lit(<<"C","o","u","l","d","n","'","t"," ","r","e","a","d"," ",
              "s","t","d","e","r","r",":"," ">>) ]

Prefix(variant) == Prefixes[variant]

\* Whether text is the rendering the claim gives for value e.
RendersAs(text, e) ==
    /\ IsPrefix(Prefix(e.variant), text)
    /\ IsDebugQuoted(Drop(text, Len(Prefix(e.variant))), e.message)

\* C4: two values of the same variant compare equal exactly when their
\* messages are the same string.
C4_EqualityByValue ==
    (stage \in { "compared", "shown" } /\ lhs.variant = rhs.variant) =>
       (equal <=> lhs.message = rhs.message)

\* Two values of one variant with different messages were compared unequal.
C4_Witness ==
    /\ stage = "compared"
    /\ lhs.variant = rhs.variant
    /\ lhs.message # rhs.message
    /\ ~equal

\* C10: two values of different variants never compare equal, whatever
\* their messages.
C10_VariantsDiffer ==
    (stage \in { "compared", "shown" } /\ lhs.variant # rhs.variant) => ~equal

\* FailedToReadStdout{m} and FailedToReadStderr{m}, same m, compared unequal.
C10_Witness ==
    /\ stage = "compared"
    /\ lhs.variant = "FailedToReadStdout"
    /\ rhs.variant = "FailedToReadStderr"
    /\ lhs.message = rhs.message
    /\ Len(lhs.message) > 0
    /\ ~equal

\* C9: the displayed text of a value is its variant's prefix followed by the
\* message in debug-quoted form, and values of different variants never
\* display the same text.
C9_DisplayTexts ==
    stage = "shown" =>
       /\ RendersAs(shown[1], lhs)
       /\ RendersAs(shown[2], rhs)
       /\ lhs.variant # rhs.variant => shown[1] # shown[2]

\* A stdout and a stderr failure with the same message, one that needs
\* escaping, were displayed and the texts differ.
C9_Witness ==
    /\ stage = "shown"
    /\ lhs.variant = "FailedToReadStdout"
    /\ rhs.variant = "FailedToReadStderr"
    /\ lhs.message = rhs.message
    /\ lhs.message = << 92, 110 >>
    /\ shown[1] # shown[2]

====
